---- MODULE Spec2Model ----
(***************************************************************************)
(* PyCHIP8: the CHIP-8 CPU (src/cpu.py), its memory bus (src/bus.py) and   *)
(* the driver operations of the front end (src/app.py), as a state         *)
(* machine.  One action per external operation: cycle, reset, press_key,   *)
(* release_key and the renderer's _draw_screen.                            *)
(***************************************************************************)
EXTENDS Integers, Sequences, FiniteSets, TLC

VARIABLES
    ram,          \* Bus._ram: address |-> byte for the nonzero bytes; every other
                  \* address below SIZE holds 0
    V,            \* registers['V']: 16 x uint8
    I,            \* registers['I']: uint16
    SP,           \* registers['SP']: uint16
    PC,           \* registers['PC']: uint16
    stack,        \* CPU.stack: python list of saved PCs
    delay,        \* timer['delay']: uint8
    sound,        \* timer['sound']: uint8
    screen,       \* CPU.screen: the indexes of the cells that hold 1; every other
                  \* cell of the 64*32 holds 0 (a cell is only ever cleared or XORed with a bit)
    key_input,    \* CPU.key_input: uint16 latch
    is_drawing,   \* CPU.is_drawing
    opcode,       \* CPU.opcode (Opcode._opcode): uint16
    value_Vx,     \* CPU._value_Vx
    value_Vy,     \* CPU._value_Vy
    outcome,      \* how the last cycle() ended: "ok", "UnknownOpcode", "IndexError", "exit"
    error,        \* the text carried by the exception of the last cycle() (hex digits)
    clock_counter,\* App._clock_counter
    calls,        \* number of cycle() calls since construction or the last reset
    op,           \* the operation that produced this state
    pre_screen,   \* the display as it was when the last cycle() or reset() began
    args,         \* the arguments of the operation that produced this state:
                  \* <<key>> of press_key / release_key, <<addr, data>> of Bus.write,
                  \* <<addr>> of Bus.read, <<>> otherwise
    read_data,    \* the byte the last direct Bus.read returned
    pixels        \* the display as App._draw_screen last painted it on the window

vars == <<ram, V, I, SP, PC, stack, delay, sound, screen, key_input, is_drawing,
          opcode, value_Vx, value_Vy, outcome, error, clock_counter, calls, op,
          pre_screen, args, read_data, pixels>>

----------------------------------------------------------------------------
(* Bounds of the model *)

MaxCalls == 17         \* cycle() calls explored after construction / reset
MaxPressed == 1        \* keys held down at the same time
MaxHeld == 2           \* keys held down at the same time when only the keys are driven

(* the values random.randint(0, 255) is taken to return *)
RandBytes == {0, 85, 255}

(* the keys the driver presses and releases *)
Keys == {0, 1, 10, 15}

----------------------------------------------------------------------------
(* Program constants *)

SIZE == 4096                 \* Bus(0x1000, self)
START_PROGRAM_ADDR == 512    \* CPU._START_PROGRAM_ADDR
SCREEN_W == 64               \* CPU._SCREEN_SIZE[0]
SCREEN_H == 32               \* CPU._SCREEN_SIZE[1]
U8 == 256                    \* ctypes.c_uint8 modulus
U16 == 65536                 \* ctypes.c_uint16 modulus

----------------------------------------------------------------------------
(* Bit arithmetic on naturals, as Python's &, |, ^, <<, >> *)

RECURSIVE BitAnd(_, _)
BitAnd(a, b) ==
    IF a = 0 \/ b = 0 THEN 0
    ELSE (IF a % 2 = 1 /\ b % 2 = 1 THEN 1 ELSE 0) + 2 * BitAnd(a \div 2, b \div 2)

RECURSIVE BitOr(_, _)
BitOr(a, b) ==
    IF a = 0 THEN b
    ELSE IF b = 0 THEN a
    ELSE (IF a % 2 = 1 \/ b % 2 = 1 THEN 1 ELSE 0) + 2 * BitOr(a \div 2, b \div 2)

RECURSIVE BitXor(_, _)
BitXor(a, b) ==
    IF a = 0 THEN b
    ELSE IF b = 0 THEN a
    ELSE (IF a % 2 # b % 2 THEN 1 ELSE 0) + 2 * BitXor(a \div 2, b \div 2)

RECURSIVE Pow2(_)
Pow2(n) == IF n = 0 THEN 1 ELSE 2 * Pow2(n - 1)

Shl(a, n) == a * Pow2(n)
Shr(a, n) == a \div Pow2(n)

----------------------------------------------------------------------------
(* Opcode view: fields of the 16-bit instruction word *)

p(w) == Shr(w, 12)
Vx(w) == Shr(BitAnd(w, 3840), 8)
Vy(w) == Shr(BitAnd(w, 240), 4)
n(w) == BitAnd(w, 15)
kk(w) == BitAnd(w, 255)
nnn(w) == BitAnd(w, 4095)

(* hex(): python's hex of a non-negative int, as the characters after "0x" *)
HexDigit == <<"0", "1", "2", "3", "4", "5", "6", "7",
              "8", "9", "a", "b", "c", "d", "e", "f">>

RECURSIVE hex(_)
hex(v) ==
    IF v < 16 THEN <<HexDigit[v + 1]>>
    ELSE Append(hex(v \div 16), HexDigit[(v % 16) + 1])

----------------------------------------------------------------------------
(* Memory bus *)

_is_address_correct(addr) == addr >= 0 /\ addr <= SIZE

(* the python index into _ram raises IndexError outside 0..SIZE-1 *)
IndexError(addr) == addr \notin 0..(SIZE - 1)

(* _ram[addr] *)
Peek(mem, addr) == IF addr \in DOMAIN mem THEN mem[addr] ELSE 0

(* _ram[addr] = data *)
Poke(mem, addr, data) ==
    IF data = 0 THEN [a \in DOMAIN mem \ {addr} |-> mem[a]]
    ELSE (addr :> data) @@ mem

(* Bus.read: the byte, 0 when the address is rejected, or the process exit *)
read(mem, addr) ==
    IF _is_address_correct(addr)
    THEN IF IndexError(addr)
         THEN [data |-> 0, exit |-> TRUE]
         ELSE [data |-> Peek(mem, addr), exit |-> FALSE]
    ELSE [data |-> 0, exit |-> FALSE]

(* variant (not the code): only the low seven bits of the byte are stored *)
write_low7(mem, addr, data) ==
    IF _is_address_correct(addr)
    THEN IF IndexError(addr)
         THEN [ram |-> mem, exit |-> TRUE]
         ELSE [ram |-> Poke(mem, addr, data % 128), exit |-> FALSE]
    ELSE [ram |-> mem, exit |-> FALSE]

(* Bus.write: the new memory, unchanged when the address is rejected *)
write(mem, addr, data) ==
    IF _is_address_correct(addr)
    THEN IF IndexError(addr)
         THEN [ram |-> mem, exit |-> TRUE]
         ELSE [ram |-> Poke(mem, addr, data), exit |-> FALSE]
    ELSE [ram |-> mem, exit |-> FALSE]

----------------------------------------------------------------------------
(* The CPU state as one value; the handlers map a state to the next one *)

State ==
    [ram |-> ram, V |-> V, I |-> I, SP |-> SP, PC |-> PC, stack |-> stack,
     delay |-> delay, sound |-> sound, screen |-> screen,
     key_input |-> key_input, is_drawing |-> is_drawing, opcode |-> opcode,
     value_Vx |-> value_Vx, value_Vy |-> value_Vy,
     outcome |-> outcome, error |-> error]

(* raise self.Error.UnknownOpcodeException(hex(self.opcode.value)) *)
UnknownOpcodeException(s) ==
    [s EXCEPT !.outcome = "UnknownOpcode", !.error = hex(s.opcode)]

(* print(...); exit() in the bus *)
exit(s) == [s EXCEPT !.outcome = "exit"]

KEY_MAP ==
    [k \in 0..15 |->
        CASE k = 0 -> 8192   [] k = 1 -> 1      [] k = 2 -> 2     [] k = 3 -> 4
          [] k = 4 -> 16     [] k = 5 -> 32     [] k = 6 -> 64    [] k = 7 -> 256
          [] k = 8 -> 512    [] k = 9 -> 1024   [] k = 10 -> 4096 [] k = 11 -> 16384
          [] k = 12 -> 8     [] k = 13 -> 128   [] k = 14 -> 2048 [] k = 15 -> 32768]

is_key_pressed(latch, key) ==
    IF key > 15 THEN FALSE ELSE BitAnd(latch, KEY_MAP[key]) # 0

clear_display(s) ==
    [s EXCEPT !.screen = {}, !.is_drawing = TRUE]

(* variant (not the code): the call stack survives the reset *)
reset_keep_stack(s) ==
    clear_display([s EXCEPT !.V = [i \in DOMAIN s.V |-> 0],
                            !.I = 0, !.SP = 0, !.PC = START_PROGRAM_ADDR,
                            !.delay = 0, !.sound = 0])

(* variant (not the code): the key latch is cleared with the registers *)
reset_clear_keys(s) ==
    clear_display([s EXCEPT !.V = [i \in DOMAIN s.V |-> 0],
                            !.I = 0, !.SP = 0, !.PC = START_PROGRAM_ADDR,
                            !.stack = <<>>, !.delay = 0, !.sound = 0,
                            !.key_input = 0])

reset(s) ==
    clear_display([s EXCEPT !.V = [i \in DOMAIN s.V |-> 0],
                            !.I = 0, !.SP = 0, !.PC = START_PROGRAM_ADDR,
                            !.stack = <<>>, !.delay = 0, !.sound = 0])

(* load_rom: the bytes of the file written from offset on; a write that ends
   the process ends the load *)
RECURSIVE load_rom(_, _, _)
load_rom(mem, rom, offset) ==
    IF rom = <<>> THEN mem
    ELSE LET w == write(mem, offset % U16, Head(rom))
         IN  IF w.exit THEN w.ram
             ELSE load_rom(w.ram, Tail(rom), offset + 1)

----------------------------------------------------------------------------
(* Fetch *)

_fetch_opcode(s) ==
    LET r1 == read(s.ram, s.PC)
        pc1 == (s.PC + 1) % U16
        r2 == read(s.ram, pc1)
        pc2 == (pc1 + 1) % U16
        w == BitOr(Shl(r1.data, 8), r2.data) % U16
    IN  IF r1.exit THEN exit(s)
        ELSE IF r2.exit THEN exit([s EXCEPT !.PC = pc1])
        ELSE [s EXCEPT !.PC = pc2, !.opcode = w,
                       !.value_Vx = s.V[Vx(w)], !.value_Vy = s.V[Vy(w)]]

----------------------------------------------------------------------------
(* Instruction handlers *)

_00E0(s) == clear_display(s)

(* variant (not the code): a return on an empty stack jumps to 0 *)
_00EE_zero(s) ==
    IF Len(s.stack) = 0
    THEN [s EXCEPT !.PC = 0]
    ELSE [s EXCEPT !.PC = s.stack[Len(s.stack)] % U16,
                   !.stack = SubSeq(s.stack, 1, Len(s.stack) - 1)]

(* self.stack.pop() raises IndexError on an empty list, before PC is assigned *)
_00EE(s) ==
    IF Len(s.stack) = 0
    THEN [s EXCEPT !.outcome = "IndexError"]
    ELSE [s EXCEPT !.PC = s.stack[Len(s.stack)] % U16,
                   !.stack = SubSeq(s.stack, 1, Len(s.stack) - 1)]

(* variant (not the code): a group-0 word with no handler is skipped silently *)
_0NNN_ignore(s) ==
    IF kk(s.opcode) = 224 THEN _00E0(s)
    ELSE IF kk(s.opcode) = 238 THEN _00EE(s)
    ELSE s

_0NNN(s) ==
    IF kk(s.opcode) = 224 THEN _00E0(s)
    ELSE IF kk(s.opcode) = 238 THEN _00EE(s)
    ELSE UnknownOpcodeException(s)

_1NNN(s) == [s EXCEPT !.PC = nnn(s.opcode)]

(* variant (not the code): the call saves its own address, not the next one *)
_2NNN_own(s) ==
    [s EXCEPT !.stack = Append(s.stack, (s.PC - 2) % U16), !.PC = nnn(s.opcode)]

_2NNN(s) == [s EXCEPT !.stack = Append(s.stack, s.PC), !.PC = nnn(s.opcode)]

_3XNN(s) ==
    IF s.value_Vx = kk(s.opcode) THEN [s EXCEPT !.PC = (s.PC + 2) % U16] ELSE s

_4XNN(s) ==
    IF s.value_Vx # kk(s.opcode) THEN [s EXCEPT !.PC = (s.PC + 2) % U16] ELSE s

_5XY0(s) ==
    IF s.value_Vx = s.value_Vy THEN [s EXCEPT !.PC = (s.PC + 2) % U16] ELSE s

_6XNN(s) == [s EXCEPT !.V[Vx(s.opcode)] = kk(s.opcode)]

(* variant (not the code): the add also writes a carry into VF *)
_7XNN_carry(s) ==
    LET sum == s.V[Vx(s.opcode)] + kk(s.opcode)
        regV == [s.V EXCEPT ![15] = IF sum > 255 THEN 1 ELSE 0]
    IN  [s EXCEPT !.V = [regV EXCEPT ![Vx(s.opcode)] = sum % U8]]

_7XNN(s) == [s EXCEPT !.V[Vx(s.opcode)] = (s.V[Vx(s.opcode)] + kk(s.opcode)) % U8]

_8XY0(s) == [s EXCEPT !.V[Vx(s.opcode)] = s.value_Vy]

_8XY1(s) == [s EXCEPT !.V[Vx(s.opcode)] = BitOr(s.V[Vx(s.opcode)], s.value_Vy)]

_8XY2(s) == [s EXCEPT !.V[Vx(s.opcode)] = BitAnd(s.V[Vx(s.opcode)], s.value_Vy)]

_8XY3(s) == [s EXCEPT !.V[Vx(s.opcode)] = BitXor(s.V[Vx(s.opcode)], s.value_Vy)]

(* variant (not the code): the carry is taken from the truncated sum *)
_8XY4_late(s) ==
    LET sum == (s.V[Vx(s.opcode)] + s.value_Vy) % U8
        regV == [s.V EXCEPT ![Vx(s.opcode)] = sum]
    IN  [s EXCEPT !.V = [regV EXCEPT ![15] = IF sum > 255 THEN 1 ELSE 0]]

_8XY4(s) ==
    LET flag == IF s.value_Vx + s.value_Vy > 255 THEN 1 ELSE 0
        regV == [s.V EXCEPT ![15] = flag]
    IN  [s EXCEPT !.V = [regV EXCEPT ![Vx(s.opcode)] =
                             (regV[Vx(s.opcode)] + s.value_Vy) % U8]]

_8XY5(s) ==
    LET flag == IF s.value_Vx > s.value_Vy THEN 1 ELSE 0
        regV == [s.V EXCEPT ![15] = flag]
    IN  [s EXCEPT !.V = [regV EXCEPT ![Vx(s.opcode)] =
                             (regV[Vx(s.opcode)] - s.value_Vy) % U8]]

(* variant (not the code): the shift takes VY as its operand *)
_8XY6_vy(s) ==
    LET regV == [s.V EXCEPT ![15] = BitAnd(s.value_Vy, 1)]
    IN  [s EXCEPT !.V = [regV EXCEPT ![Vx(s.opcode)] = Shr(s.value_Vy, 1)]]

_8XY6(s) ==
    LET regV == [s.V EXCEPT ![15] = BitAnd(s.value_Vx, 1)]
    IN  [s EXCEPT !.V = [regV EXCEPT ![Vx(s.opcode)] = Shr(regV[Vx(s.opcode)], 1)]]

_8XY7(s) ==
    LET flag == IF s.value_Vy > s.value_Vx THEN 1 ELSE 0
        regV == [s.V EXCEPT ![15] = flag]
    IN  [s EXCEPT !.V = [regV EXCEPT ![Vx(s.opcode)] =
                             (s.value_Vy - s.value_Vx) % U8]]

_8XYE(s) ==
    LET regV == [s.V EXCEPT ![15] = Shr(s.value_Vx, 7)]
    IN  [s EXCEPT !.V = [regV EXCEPT ![Vx(s.opcode)] =
                             Shl(regV[Vx(s.opcode)], 1) % U8]]

_9XY0(s) ==
    IF s.value_Vx # s.value_Vy THEN [s EXCEPT !.PC = (s.PC + 2) % U16] ELSE s

_ANNN(s) == [s EXCEPT !.I = nnn(s.opcode)]

_BNNN(s) == [s EXCEPT !.PC = (nnn(s.opcode) + s.V[0]) % U16]

_CXNN(s, r_num) == [s EXCEPT !.V[Vx(s.opcode)] = BitAnd(r_num, kk(s.opcode))]

(* python indexing of the ctypes screen array: a negative index counts from the end *)
PyIndex(i) == IF i < 0 THEN i + (SCREEN_W * SCREEN_H) ELSE i

(* screen[location] *)
Cell(scr, location) == IF location \in scr THEN 1 ELSE 0

(* screen[location] = bit *)
SetCell(scr, location, bit) ==
    IF bit = 0 THEN scr \ {location} ELSE scr \cup {location}

(* variant (not the code): the sprite bit is ORed into the cell *)
DrawPixel_or(s, row, y_offset, x_offset) ==
    LET x == s.value_Vx + x_offset - 1
        y == s.value_Vy + y_offset
        location == PyIndex(y * SCREEN_W + x)
        mask == Shl(1, 8 - x_offset)
        curr_pixel == Shr(BitAnd(row, mask), 8 - x_offset)
        cell == BitOr(Cell(s.screen, location), curr_pixel)
    IN  IF x >= SCREEN_W \/ y >= SCREEN_H THEN s
        ELSE [s EXCEPT !.screen = SetCell(s.screen, location, cell),
                       !.V[15] = IF cell = 0 THEN 1 ELSE 0]

(* variant (not the code): no test against the grid, the index wraps around *)
DrawPixel_wrap(s, row, y_offset, x_offset) ==
    LET x == s.value_Vx + x_offset - 1
        y == s.value_Vy + y_offset
        location == PyIndex(y * SCREEN_W + x) % (SCREEN_W * SCREEN_H)
        mask == Shl(1, 8 - x_offset)
        curr_pixel == Shr(BitAnd(row, mask), 8 - x_offset)
        cell == BitXor(Cell(s.screen, location), curr_pixel)
    IN  [s EXCEPT !.screen = SetCell(s.screen, location, cell),
                  !.V[15] = IF cell = 0 THEN 1 ELSE 0]

(* the body of the inner loop of _DXYN for one x_offset of one row *)
DrawPixel(s, row, y_offset, x_offset) ==
    LET x == s.value_Vx + x_offset - 1
        y == s.value_Vy + y_offset
        location == PyIndex(y * SCREEN_W + x)
        mask == Shl(1, 8 - x_offset)
        curr_pixel == Shr(BitAnd(row, mask), 8 - x_offset)
        cell == BitXor(Cell(s.screen, location), curr_pixel)
    IN  IF x >= SCREEN_W \/ y >= SCREEN_H THEN s
        ELSE [s EXCEPT !.screen = SetCell(s.screen, location, cell),
                       !.V[15] = IF cell = 0 THEN 1 ELSE 0]

(* for x_offset in range(8) *)
RECURSIVE DrawRow(_, _, _, _)
DrawRow(s, row, y_offset, x_offset) ==
    IF x_offset >= 8 THEN s
    ELSE DrawRow(DrawPixel(s, row, y_offset, x_offset), row, y_offset, x_offset + 1)

(* for y_offset in range(n_bytes) *)
RECURSIVE DrawRows(_, _)
DrawRows(s, y_offset) ==
    IF y_offset >= n(s.opcode) THEN s
    ELSE LET r == read(s.ram, (s.I + y_offset) % U16)
         IN  IF r.exit THEN exit(s)
             ELSE DrawRows(DrawRow(s, r.data, y_offset, 0), y_offset + 1)

(* variant (not the code): the draw leaves the dirty flag as it finds it *)
_DXYN_quiet(s) == DrawRows([s EXCEPT !.V[15] = 0], 0)

_DXYN(s) ==
    LET done == DrawRows([s EXCEPT !.V[15] = 0], 0)
    IN  IF done.outcome = "exit" THEN done
        ELSE [done EXCEPT !.is_drawing = TRUE]

(* group E is dispatched to _keyboard, whose body is pass *)
_keyboard(s) == s

_EX9E(s) ==
    IF is_key_pressed(s.key_input, s.value_Vx)
    THEN [s EXCEPT !.PC = (s.PC + 2) % U16] ELSE s

_EXA1(s) ==
    IF ~is_key_pressed(s.key_input, s.value_Vx)
    THEN [s EXCEPT !.PC = (s.PC + 2) % U16] ELSE s

_FX07(s) == [s EXCEPT !.V[Vx(s.opcode)] = s.delay]

(* variant (not the code): the wait does not rewind PC *)
_FX0A_norewind(s) == s

(* with a key down the handler returns the key and stores nothing *)
_FX0A(s) ==
    IF s.key_input > 0 THEN s
    ELSE [s EXCEPT !.PC = (s.PC - 2) % U16]

_FX15(s) == [s EXCEPT !.delay = s.value_Vx]

_FX18(s) == [s EXCEPT !.sound = s.value_Vx]

_FX1E(s) ==
    LET flag == IF s.I + s.value_Vx > 4095 THEN 1 ELSE 0
    IN  [s EXCEPT !.V[15] = flag, !.I = BitAnd(s.I + s.value_Vx, 4095)]

_FX29(s) == [s EXCEPT !.I = (s.value_Vx * 5) % U16]

_FX33(s) ==
    LET a0 == s.I
        w0 == write(s.ram, a0, s.value_Vx \div 100)
        a1 == (a0 + 1) % U16
        w1 == write(w0.ram, a1, (s.value_Vx % 100) \div 10)
        a2 == (a1 + 1) % U16
        w2 == write(w1.ram, a2, s.value_Vx % 10)
    IN  IF w0.exit THEN exit(s)
        ELSE IF w1.exit THEN exit([s EXCEPT !.ram = w0.ram])
        ELSE IF w2.exit THEN exit([s EXCEPT !.ram = w1.ram])
        ELSE [s EXCEPT !.ram = w2.ram]

(* for index in range(size): bus.write(regI, V[index]); regI += 1 *)
RECURSIVE StoreRegs(_, _)
StoreRegs(s, index) ==
    IF index >= Vx(s.opcode) + 1 THEN s
    ELSE LET w == write(s.ram, s.I, s.V[index])
         IN  IF w.exit THEN exit(s)
             ELSE StoreRegs([s EXCEPT !.ram = w.ram, !.I = (s.I + 1) % U16], index + 1)

(* variant (not the code): I is left where it was *)
_FX55_keepI(s) ==
    LET done == StoreRegs(s, 0)
    IN  IF done.outcome = "exit" THEN done ELSE [done EXCEPT !.I = s.I]

_FX55(s) == StoreRegs(s, 0)

(* for index in range(size): V[index] = bus.read(regI); regI += 1 *)
RECURSIVE LoadRegs(_, _)
LoadRegs(s, index) ==
    IF index >= Vx(s.opcode) + 1 THEN s
    ELSE LET r == read(s.ram, s.I)
         IN  IF r.exit THEN exit(s)
             ELSE LoadRegs([s EXCEPT !.V[index] = r.data, !.I = (s.I + 1) % U16], index + 1)

_FX65(s) == LoadRegs(s, 0)

----------------------------------------------------------------------------
(* Dispatch *)

_execute_logical(s) ==
    LET m == n(s.opcode)
    IN  CASE m = 0 -> _8XY0(s) [] m = 1 -> _8XY1(s) [] m = 2 -> _8XY2(s)
          [] m = 3 -> _8XY3(s) [] m = 4 -> _8XY4(s) [] m = 5 -> _8XY5(s)
          [] m = 6 -> _8XY6(s) [] m = 7 -> _8XY7(s) [] m = 14 -> _8XYE(s)
          [] OTHER -> UnknownOpcodeException(s)

_other_inst(s) ==
    LET m == kk(s.opcode)
    IN  CASE m = 7 -> _FX07(s)   [] m = 10 -> _FX0A(s) [] m = 21 -> _FX15(s)
          [] m = 24 -> _FX18(s)  [] m = 30 -> _FX1E(s) [] m = 41 -> _FX29(s)
          [] m = 51 -> _FX33(s)  [] m = 85 -> _FX55(s) [] m = 101 -> _FX65(s)
          [] OTHER -> UnknownOpcodeException(s)

_execute_ins(s, r_num) ==
    LET g == p(s.opcode)
    IN  CASE g = 0 -> _0NNN(s)  [] g = 1 -> _1NNN(s)  [] g = 2 -> _2NNN(s)
          [] g = 3 -> _3XNN(s)  [] g = 4 -> _4XNN(s)  [] g = 5 -> _5XY0(s)
          [] g = 6 -> _6XNN(s)  [] g = 7 -> _7XNN(s)  [] g = 8 -> _execute_logical(s)
          [] g = 9 -> _9XY0(s)  [] g = 10 -> _ANNN(s) [] g = 11 -> _BNNN(s)
          [] g = 12 -> _CXNN(s, r_num) [] g = 13 -> _DXYN(s)
          [] g = 14 -> _keyboard(s)    [] g = 15 -> _other_inst(s)

(* variant (not the code): the timers are decremented without the test for zero *)
tick_wrap(s) ==
    [s EXCEPT !.delay = (s.delay - 1) % U8, !.sound = (s.sound - 1) % U8]

(* the timer part of cycle() *)
tick(s) ==
    [s EXCEPT !.delay = IF s.delay > 0 THEN s.delay - 1 ELSE s.delay,
              !.sound = IF s.sound > 0 THEN s.sound - 1 ELSE s.sound]

(* variant (not the code): the timers are ticked in a finally clause, also
   when the instruction raises *)
cycle_finally(s, r_num) ==
    LET s0 == [s EXCEPT !.outcome = "ok", !.error = <<>>]
        s1 == _fetch_opcode(s0)
        s2 == _execute_ins(s1, r_num)
    IN  IF s1.outcome # "ok" THEN s1
        ELSE IF s2.outcome = "exit" THEN s2
        ELSE tick(s2)

(* variant (not the code): a cycle() that waits on FX0A holds the timers *)
cycle_hold(s, r_num) ==
    LET s0 == [s EXCEPT !.outcome = "ok", !.error = <<>>]
        s1 == _fetch_opcode(s0)
        s2 == _execute_ins(s1, r_num)
    IN  IF s1.outcome # "ok" THEN s1
        ELSE IF s2.outcome # "ok" THEN s2
        ELSE IF p(s1.opcode) = 15 /\ kk(s1.opcode) = 10 /\ s2.PC = s.PC THEN s2
        ELSE tick(s2)

(* CPU.cycle: an exception or exit() ends the call where it happens *)
cycle(s, r_num) ==
    LET s0 == [s EXCEPT !.outcome = "ok", !.error = <<>>]
        s1 == _fetch_opcode(s0)
        s2 == _execute_ins(s1, r_num)
    IN  IF s1.outcome # "ok" THEN s1
        ELSE IF s2.outcome # "ok" THEN s2
        ELSE tick(s2)

(* variant (not the code): the latch bit is toggled without the test *)
press_key_toggle(s, key) ==
    [s EXCEPT !.key_input = BitXor(s.key_input, KEY_MAP[key]) % U16]

press_key(s, key) ==
    IF is_key_pressed(s.key_input, key) THEN s
    ELSE [s EXCEPT !.key_input = BitXor(s.key_input, KEY_MAP[key]) % U16]

release_key(s, key) ==
    IF ~is_key_pressed(s.key_input, key) THEN s
    ELSE [s EXCEPT !.key_input = BitXor(s.key_input, KEY_MAP[key]) % U16]

(* App._draw_screen: a dirty display is consumed and the flag cleared; the
   cells are painted on the window (pixels, in DrawScreen) *)
_draw_screen(s) ==
    IF ~s.is_drawing THEN s ELSE [s EXCEPT !.is_drawing = FALSE]

----------------------------------------------------------------------------
(* Construction and program load *)

font ==
    <<240, 144, 144, 144, 240,   32,  96,  32,  32, 112,
      240,  16, 240, 128, 240,  240,  16, 240,  16, 240,
      144, 144, 240,  16,  16,  240, 128, 240,  16, 240,
      240, 128, 240, 144, 240,  240,  16,  32,  64,  64,
      240, 144, 240, 144, 240,  240, 144, 240,  16, 240,
      240, 144, 240, 144, 144,  224, 144, 224, 144, 224,
      240, 128, 128, 128, 240,  224, 144, 144, 144, 224,
      240, 128, 240, 128, 240,  240, 128, 240, 128, 128>>

(* Bus.__init__: SIZE zero bytes *)
Bus == <<>>

(* for i in range(80): bus.write(i, font[i]); no byte of the font is 0 *)
FontLoaded == [a \in 0..(Len(font) - 1) |-> font[a + 1]]

(* CPU.__init__: the bus, the font loaded at address 0, then reset() *)
CPU ==
    reset([ram |-> FontLoaded @@ Bus,
           V |-> [i \in 0..15 |-> 0], I |-> 0, SP |-> 0, PC |-> 0,
           stack |-> <<>>, delay |-> 0, sound |-> 0,
           screen |-> {},
           key_input |-> 0, is_drawing |-> FALSE, opcode |-> 0,
           value_Vx |-> 0, value_Vy |-> 0, outcome |-> "ok", error |-> <<>>])

(* the bytes of a program given as 16-bit words, high byte first *)
RECURSIVE RomBytes(_)
RomBytes(words) ==
    IF words = <<>> THEN <<>>
    ELSE <<Head(words) \div 256, Head(words) % 256>> \o RomBytes(Tail(words))

(* an instruction word from its four nibbles *)
W(g, x, y, m) == g * 4096 + x * 256 + y * 16 + m
WK(g, x, b) == g * 4096 + x * 256 + b

----------------------------------------------------------------------------
(* The state machine *)

Set(s) ==
    /\ ram' = s.ram /\ V' = s.V /\ I' = s.I /\ SP' = s.SP /\ PC' = s.PC
    /\ stack' = s.stack /\ delay' = s.delay /\ sound' = s.sound
    /\ screen' = s.screen /\ key_input' = s.key_input
    /\ is_drawing' = s.is_drawing /\ opcode' = s.opcode
    /\ value_Vx' = s.value_Vx /\ value_Vy' = s.value_Vy
    /\ outcome' = s.outcome /\ error' = s.error

Is(s) ==
    /\ ram = s.ram /\ V = s.V /\ I = s.I /\ SP = s.SP /\ PC = s.PC
    /\ stack = s.stack /\ delay = s.delay /\ sound = s.sound
    /\ screen = s.screen /\ key_input = s.key_input
    /\ is_drawing = s.is_drawing /\ opcode = s.opcode
    /\ value_Vx = s.value_Vx /\ value_Vy = s.value_Vy
    /\ outcome = s.outcome /\ error = s.error

(* App.__init__: CPU() and load_rom of the program *)
App(rom) ==
    LET c == CPU
    IN  [c EXCEPT !.ram = load_rom(c.ram, RomBytes(rom), START_PROGRAM_ADDR)]

InitWith(roms) ==
    /\ args = <<>>
    /\ read_data = 0
    /\ pixels = {}
    /\ \E rom \in roms :
        /\ Is(App(rom))
        /\ clock_counter = 0
        /\ calls = 0
        /\ op = "init"
        /\ pre_screen = App(rom).screen

(* exit() ends the process: nothing runs after it *)
Running == outcome # "exit"

(* App.do_cycle: one cpu.cycle(); the counter moves only when it returns *)
Cycle ==
    /\ Running
    /\ calls < MaxCalls
    /\ \E r_num \in (IF p(_fetch_opcode(State).opcode) = 12 THEN RandBytes ELSE {0}) :
          LET t == cycle(State, r_num)
          IN  /\ Set(t)
              /\ clock_counter' = IF t.outcome = "ok" THEN clock_counter + 1
                                  ELSE clock_counter
    /\ calls' = calls + 1
    /\ op' = "cycle"
    /\ pre_screen' = screen
    /\ args' = <<>>
    /\ UNCHANGED <<read_data, pixels>>

(* App.update on F1: cpu.reset() and the counter back to 0 *)
Reset ==
    /\ Running
    /\ Set([reset(State) EXCEPT !.outcome = "ok", !.error = <<>>])
    /\ clock_counter' = 0
    /\ calls' = 0
    /\ op' = "reset"
    /\ pre_screen' = screen
    /\ args' = <<>>
    /\ UNCHANGED <<read_data, pixels>>

(* App.update on a key going down *)
PressKey ==
    /\ Running
    /\ \E key \in Keys :
          /\ Cardinality({k \in 0..15 : is_key_pressed(key_input, k)} \cup {key}) <= MaxPressed
          /\ Set(press_key(State, key))
          /\ args' = <<key>>
    /\ op' = "press_key"
    /\ UNCHANGED <<clock_counter, calls, pre_screen, read_data, pixels>>

(* App.update on a key going up *)
ReleaseKey ==
    /\ Running
    /\ \E key \in Keys :
          /\ Set(release_key(State, key))
          /\ args' = <<key>>
    /\ op' = "release_key"
    /\ UNCHANGED <<clock_counter, calls, pre_screen, read_data, pixels>>

(* App.draw: the renderer consumes the display *)
DrawScreen ==
    /\ Running
    /\ Set(_draw_screen(State))
    /\ pixels' = IF is_drawing THEN screen ELSE pixels
    /\ op' = "draw"
    /\ args' = <<>>
    /\ UNCHANGED <<clock_counter, calls, pre_screen, read_data>>

(* the addresses and bytes the bus is driven with directly *)
BusAddrs == {0, START_PROGRAM_ADDR + 1, SIZE - 1, SIZE, SIZE + 1, U16 - 1}
BusBytes == {0, 1, 255}

(* a call of Bus.write(addr, data) *)
BusWrite ==
    /\ Running
    /\ \E a \in BusAddrs, v \in BusBytes :
          LET w == write(ram, a, v)
          IN  /\ ram' = w.ram
              /\ outcome' = IF w.exit THEN "exit" ELSE "ok"
              /\ args' = <<a, v>>
    /\ op' = "write"
    /\ UNCHANGED <<V, I, SP, PC, stack, delay, sound, screen, key_input, is_drawing,
                   opcode, value_Vx, value_Vy, error, clock_counter, calls,
                   pre_screen, read_data, pixels>>

(* a call of Bus.read(addr), as App._draw_mem makes them *)
BusRead ==
    /\ Running
    /\ \E a \in BusAddrs :
          LET r == read(ram, a)
          IN  /\ read_data' = IF r.exit THEN read_data ELSE r.data
              /\ outcome' = IF r.exit THEN "exit" ELSE "ok"
              /\ args' = <<a>>
    /\ op' = "read"
    /\ UNCHANGED <<ram, V, I, SP, PC, stack, delay, sound, screen, key_input,
                   is_drawing, opcode, value_Vx, value_Vy, error, clock_counter,
                   calls, pre_screen, pixels>>

(* App.update on a key going down, for every key of the pad *)
PressAnyKey ==
    /\ Running
    /\ \E key \in 0..15 :
          /\ Cardinality({k \in 0..15 : is_key_pressed(key_input, k)} \cup {key}) <= MaxHeld
          /\ Set(press_key(State, key))
          /\ args' = <<key>>
    /\ op' = "press_key"
    /\ UNCHANGED <<clock_counter, calls, pre_screen, read_data, pixels>>

(* App.update on a key going up, for every key of the pad *)
ReleaseAnyKey ==
    /\ Running
    /\ \E key \in 0..15 :
          /\ Set(release_key(State, key))
          /\ args' = <<key>>
    /\ op' = "release_key"
    /\ UNCHANGED <<clock_counter, calls, pre_screen, read_data, pixels>>

NextCpu == Cycle \/ Reset

NextLatch == PressAnyKey \/ ReleaseAnyKey

NextBus == BusWrite \/ BusRead

Next == Cycle \/ Reset \/ PressKey \/ ReleaseKey \/ DrawScreen

(* a run with no reset: cycles and key events *)
NextRun == Cycle \/ PressKey \/ ReleaseKey

(* a step that is a call of cycle(): the only steps that raise calls are those
   of Cycle, and this is enabled exactly when Cycle is *)
CycleCalled == Running /\ calls < MaxCalls /\ op' = "cycle" /\ calls' = calls + 1

----------------------------------------------------------------------------
(* Programs *)

RegsX == {0, 14}
RegsY == {0, 1, 15}
ByteVals == {0, 1, 5, 127, 128, 255}

(* LD Vx a; LD Vy b; 8xym for every low nibble m *)
RomsAlu ==
    { <<WK(6, x, a), WK(6, y, b), W(8, x, y, m)>> :
        x \in RegsX, y \in RegsY, a \in ByteVals, b \in ByteVals, m \in 0..15 }

(* LD Vx kk; ADD Vx jj *)
RomsLoadAdd ==
    { <<WK(6, x, a), WK(7, x, b)>> : x \in RegsX \cup {1, 15}, a \in ByteVals, b \in ByteVals }

(* every word of group 0 and of group F with X = 0 or 3, then LD V0 5 *)
RomsGroup0F ==
    { <<WK(g, x, b), WK(6, 0, 5)>> : g \in {0, 15}, x \in {0, 3}, b \in 0..255 }

(* LD Vx a; LD Vy b; a skip on them; LD V2 1; LD V3 2 *)
RomsSkip ==
    { <<WK(6, 0, a), WK(6, 1, b), w, WK(6, 2, 1), WK(6, 3, 2)>> :
        a \in {0, 5, 255}, b \in {0, 5},
        w \in {WK(3, 0, 5), WK(4, 0, 5), W(5, 0, 1, 0), W(9, 0, 1, 0),
               W(5, 0, 0, 0), W(9, 1, 1, 0)} }

(* jumps, calls and returns *)
RomsFlow ==
    { <<8708>>,                               \* 2204: CALL 0x204 on itself
      <<8704>>,                               \* CALL 0x200: a call of itself, for ever
      <<8710, 24832, 4612, 238>>,             \* CALL 0x206; LD V1 0; JP 0x204; RET
      <<8708, 0, 8712, 0, 238>>,              \* CALL 0x204; -; CALL 0x208; -; RET
      <<238>>,                                \* RET on an empty stack
      <<4608>>,                               \* JP 0x200
      <<8191>>,                               \* JP 0xFFF
      <<8190>>,                               \* JP 0xFFE
      <<8189>>,                               \* JP 0xFFD
      <<24831, 49151>>,                       \* LD V0 0xFF; JP V0, 0xFFF
      <<24581, 45572, 24577, 24578, 24579>>,  \* LD V0 5; JP V0, 0x204; ...
      <<224, 4608>> }                         \* CLS; JP 0x200

(* LD Vx a; LD DT Vx; LD Vy b; LD ST Vy; LD V2 DT; LD V3 DT; LD DT V3 *)
RomsTimer ==
    { <<WK(6, 0, a), WK(15, 0, 21), WK(6, 1, b), WK(15, 1, 24),
        WK(15, 2, 7), WK(15, 3, 7), WK(15, 3, 21)>> : a \in ByteVals, b \in ByteVals }

(* index register and memory transfers *)
RomsMem ==
    { <<WK(6, 0, a), WK(6, 1, b), i, w, WK(15, 1, 30), WK(15, 1, 101)>> :
        a \in {0, 7, 255}, b \in {1, 200},
        i \in {40960 + 768, 40960 + 4093, 40960 + 4095, 40960},
        w \in {WK(15, 0, 51), WK(15, 1, 85), WK(15, 1, 101), WK(15, 0, 41),
               WK(15, 0, 30), WK(12, 1, 15), WK(12, 0, 255)} }

(* block store and load: LD V0 a; LD V1 b; LD Vx 3; LD I i; LD [I] Vx;
   LD V0 0; LD V1 9; LD I i; LD Vx [I] *)
RomsBlock ==
    { <<WK(6, 0, a), WK(6, 1, b), WK(6, x, 3), 40960 + i, WK(15, x, 85),
        WK(6, 0, 0), WK(6, 1, 9), 40960 + i, WK(15, x, 101)>> :
        a \in {0, 7, 255}, b \in {1, 200}, x \in {0, 1, 2, 15},
        i \in {768, 511, 4080, 4094} }

RomsCpu ==
    RomsAlu \cup RomsLoadAdd \cup RomsGroup0F \cup RomsSkip \cup RomsFlow
        \cup RomsTimer \cup RomsMem \cup RomsBlock

(* sprite draws: LD Vx a; LD Vy b; LD I i1; DRW n1; LD I i2; DRW n2; DRW n2 *)
RomsDraw ==
    { <<WK(6, x, a), WK(6, y, b), 40960 + i1, W(13, x, y, n1),
        40960 + i2, W(13, x, y, n2), W(13, x, y, n2)>> :
        x \in {0}, y \in {1},
        a \in {0, 1, 57, 63, 64, 255}, b \in {0, 27, 31, 32},
        i1 \in {0, 25}, n1 \in {0, 5}, i2 \in {0, 75, 512}, n2 \in {1, 5, 15} }

(* programs that read the keys, with timers, a call and a draw around them *)
RomsKeys ==
    { <<WK(15, x, 10), WK(7, x, 1)>> : x \in {0, 5, 15} }
    \cup { <<WK(6, 0, k), WK(14, 0, w), WK(6, 1, 1), WK(6, 2, 2)>> :
             k \in {0, 7, 15, 16}, w \in {158, 161} }
    \cup { <<24581, 61461, 61464, 61706, 61447>>,   \* LD V0 5; LD DT V0; LD ST V0; LD V1 K; LD V0 DT
           <<8710, 0, 0, 40965, 53269, 61450>>,     \* CALL 0x206; LD I 5; DRW 5; LD V0 K
           <<40960, 53253, 224, 61450, 53253>>,     \* LD I 0; DRW 5; CLS; LD V0 K; DRW 5
           <<24830, 41728, 61491, 61450>>,          \* LD V0 254; LD I 0x300; LD B V0; LD V0 K
           <<24585, 61461, 61464, 40960, 53269,     \* LD V0 9; LD DT V0; LD ST V0; LD I 0; DRW 5;
             8718, 0, 32792, 61695, 255>> }         \* CALL 0x20E; -; 8018; F0FF; 00FF: no handlers

(* images the bus holds when it is driven directly: the font alone, and
   the font with a program *)
RomsBus == { <<>>, <<24830, 41728, 61491, 61450>> }

(* countdowns: LD V0 a; LD DT V0; LD V1 b; LD ST V1; then a wait for a key,
   a jump on itself, a second write of the timers, or the end of the program *)
RomsCountdown ==
    { <<WK(6, 0, a), WK(15, 0, 21), WK(6, 1, b), WK(15, 1, 24)>> \o tail :
        a \in {0, 1, 3, 6}, b \in {2, 5},
        tail \in { <<WK(15, 2, 10), WK(15, 2, 21), WK(15, 2, 10)>>,  \* LD V2 K; LD DT V2; LD V2 K
                   <<4608 + 8>>,                                   \* JP 0x208
                   <<WK(15, 3, 7), WK(15, 1, 24), 4608 + 12>>,     \* LD V3 DT; LD ST V1; JP 0x20C
                   <<WK(7, 0, 1)>> } }                             \* ADD V0 1; then no program

InitCpu == InitWith(RomsCpu)
InitRun == InitWith(RomsCountdown)
InitBus == InitWith(RomsBus)
InitLatch == InitWith({<<>>})
InitDraw == InitWith(RomsDraw)
Init == InitWith(RomsKeys)

(* the instruction set, no key events *)
SpecCpu == InitCpu /\ [][NextCpu]_vars

(* the draw instruction *)
SpecDraw == InitDraw /\ [][NextCpu]_vars

(* the machine with its driver: cycles, resets, key events and redraws *)
Spec == Init /\ [][Next]_vars

(* the machine kept running: no reset, and cycle() is called again and again
   for as long as the process lives (the driver calls do_cycle from update) *)
SpecRun == InitRun /\ [][NextRun]_vars /\ WF_<<calls, op>>(CycleCalled)

(* the key latch of a constructed machine: key events only, every key *)
SpecLatch == InitLatch /\ [][NextLatch]_vars

(* the memory bus of a constructed machine, written and read directly *)
SpecBus == InitBus /\ [][NextBus]_vars

----------------------------------------------------------------------------
(* Properties: the instruction word by arithmetic, and the steps *)

WordAt(mem, a) == Peek(mem, a) * 256 + Peek(mem, (a + 1) % U16)
Grp(w) == w \div 4096
RegX(w) == (w \div 256) % 16
RegY(w) == (w \div 16) % 16
Low(w) == w % 256
Nib(w) == w % 16

(* the word the next cycle() fetches *)
NextWord == WordAt(ram, PC)

(* a step that is one cycle() call which did not end the process *)
CycleStep == op' = "cycle" /\ calls' = calls + 1 /\ outcome' # "exit"

(* the skips that are taken, and the instructions that set PC themselves *)
TakenSkip(w) ==
    \/ Grp(w) = 3 /\ V[RegX(w)] = Low(w)
    \/ Grp(w) = 4 /\ V[RegX(w)] # Low(w)
    \/ Grp(w) = 5 /\ V[RegX(w)] = V[RegY(w)]
    \/ Grp(w) = 9 /\ V[RegX(w)] # V[RegY(w)]
    \/ Grp(w) = 14 /\ Low(w) = 158 /\ is_key_pressed(key_input, V[RegX(w)])
    \/ Grp(w) = 14 /\ Low(w) = 161 /\ ~is_key_pressed(key_input, V[RegX(w)])

ControlFlow(w) ==
    \/ Grp(w) \in {1, 2, 11}
    \/ Grp(w) = 0 /\ Low(w) = 238
    \/ Grp(w) = 15 /\ Low(w) = 10 /\ key_input = 0

(* C1: every cycle() advances PC by 2 before the instruction acts: PC + 2 after
   an instruction that is no jump, call, return, taken skip or waiting FX0A,
   PC + 4 after a taken skip, and 2NNN pushes PC + 2 *)
C1_PcAdvance ==
    [][CycleStep =>
         LET w == NextWord
         IN  /\ TakenSkip(w) => PC' = (PC + 4) % U16
             /\ ~TakenSkip(w) /\ ~ControlFlow(w) => PC' = (PC + 2) % U16
             /\ Grp(w) = 2 => stack' = Append(stack, (PC + 2) % U16)]_vars

(* a load and an add of the same register at the program start *)
LoadAddProgram ==
    LET w1 == WordAt(ram, START_PROGRAM_ADDR)
        w2 == WordAt(ram, START_PROGRAM_ADDR + 2)
    IN  /\ Grp(w1) = 6 /\ Grp(w2) = 7
        /\ RegX(w1) = RegX(w2) /\ RegX(w1) # 15

AfterTwoCycles == op = "cycle" /\ calls = 2 /\ clock_counter = 2

(* C2: from a reset CPU with 6XKK, 7XJJ at 0x200 (X other than F), two
   cycle() calls leave VX = (KK + JJ) mod 256, PC = 0x204 and VF as the reset
   left it: the add writes no carry *)
C2_LoadAdd ==
    LoadAddProgram /\ AfterTwoCycles =>
        LET w1 == WordAt(ram, START_PROGRAM_ADDR)
            w2 == WordAt(ram, START_PROGRAM_ADDR + 2)
        IN  /\ V[RegX(w1)] = (Low(w1) + Low(w2)) % 256
            /\ PC = 516
            /\ V[15] = 0

C2_Witness ==
    /\ LoadAddProgram /\ AfterTwoCycles
    /\ Low(WordAt(ram, START_PROGRAM_ADDR)) + Low(WordAt(ram, START_PROGRAM_ADDR + 2)) > 255
    /\ V[RegX(WordAt(ram, START_PROGRAM_ADDR))] = 126

(* the words no handler is registered for *)
Unregistered(w) ==
    \/ Grp(w) = 0 /\ Low(w) \notin {224, 238}
    \/ Grp(w) = 8 /\ Nib(w) \notin (0..7) \cup {14}
    \/ Grp(w) = 15 /\ Low(w) \notin {7, 10, 21, 24, 30, 41, 51, 85, 101}

(* the number a string of hex digits spells *)
RECURSIVE HexValue(_)
HexValue(digits) ==
    IF digits = <<>> THEN 0
    ELSE 16 * HexValue(SubSeq(digits, 1, Len(digits) - 1))
         + (CHOOSE d \in 0..15 : HexDigit[d + 1] = digits[Len(digits)])

(* C3: a cycle() that fetches a word with no registered handler (group 0 other
   than E0/EE, group 8 with low nibble outside 0..7 and E, group F with a low
   byte outside the nine registered) ends in UnknownOpcode, the exception text
   spelling the raw word in hex; and the cycle() after an UnknownOpcode runs:
   it fetches the word PC points at *)
C3_UnknownOpcode ==
    [][CycleStep =>
         /\ Unregistered(NextWord) =>
              /\ outcome' = "UnknownOpcode"
              /\ error' # <<>> /\ HexValue(error') = NextWord
              /\ opcode' = NextWord
         /\ outcome = "UnknownOpcode" => opcode' = NextWord]_vars

C3_Witness ==
    /\ op = "cycle" /\ calls = 2 /\ clock_counter = 1 /\ outcome = "ok"
    /\ Unregistered(WordAt(ram, START_PROGRAM_ADDR))
    /\ Grp(WordAt(ram, START_PROGRAM_ADDR)) = 15
    /\ V[0] = 5

(* C4: 8XY4 with X other than F leaves VX = (old VX + old VY) mod 256 and
   VF = 1 exactly when old VX + old VY > 255, also for X = Y and for Y = F *)
C4_AddCarry ==
    [][CycleStep /\ Grp(NextWord) = 8 /\ Nib(NextWord) = 4 /\ RegX(NextWord) # 15 =>
         LET x == RegX(NextWord)
             y == RegY(NextWord)
         IN  /\ V'[x] = (V[x] + V[y]) % 256
             /\ V'[15] = IF V[x] + V[y] > 255 THEN 1 ELSE 0]_vars

C4_Witness ==
    /\ op = "cycle" /\ outcome = "ok"
    /\ Grp(opcode) = 8 /\ Nib(opcode) = 4 /\ RegX(opcode) = 14 /\ RegY(opcode) = 15
    /\ value_Vx = 255 /\ value_Vy = 128 /\ V[14] = 127 /\ V[15] = 1

(* C5: 8XY5 with X other than F leaves VX = (old VX - old VY) mod 256 and
   VF = 0 when old VX < old VY, VF = 1 when old VX >= old VY *)
C5_SubBorrow ==
    [][CycleStep /\ Grp(NextWord) = 8 /\ Nib(NextWord) = 5 /\ RegX(NextWord) # 15 =>
         LET x == RegX(NextWord)
             y == RegY(NextWord)
         IN  /\ V'[x] = (V[x] - V[y]) % 256
             /\ V'[15] = IF V[x] < V[y] THEN 0 ELSE 1]_vars

(* bit b of a sprite row, counted from the left *)
SpriteBit(byte, b) == (byte \div Pow2(7 - b)) % 2

SetBitInGrid(w) ==
    \E r \in 0..(Nib(w) - 1), b \in 0..7 :
        /\ SpriteBit(Peek(ram, (I + r) % U16), b) = 1
        /\ value_Vx + b < SCREEN_W
        /\ value_Vy + r < SCREEN_H

(* the last cycle() was a completed DXYN and the next one repeats it *)
DrawnOnce ==
    /\ op = "cycle" /\ outcome = "ok"
    /\ Grp(opcode) = 13 /\ Nib(opcode) \in 1..15
    /\ NextWord = opcode
    /\ V[RegX(opcode)] = value_Vx /\ V[RegY(opcode)] = value_Vy
    /\ SetBitInGrid(opcode)

(* C6: the same DXYN (1 to 15 rows, a set sprite bit inside the grid) run twice
   in a row with the same I, sprite bytes and coordinates leaves every display
   cell as it was before the first draw, and VF = 1 after the second draw when
   the display was clear before the first *)
C6_DrawTwice ==
    [][DrawnOnce /\ CycleStep /\ outcome' = "ok" =>
         /\ screen' = pre_screen
         /\ pre_screen = {} => V'[15] = 1]_vars

C6_Witness ==
    /\ op = "cycle" /\ outcome = "ok" /\ calls = 7
    /\ Grp(opcode) = 13 /\ Nib(opcode) = 5
    /\ Grp(WordAt(ram, (PC - 4) % U16)) = 13 /\ WordAt(ram, (PC - 4) % U16) = opcode
    /\ screen # {} /\ pre_screen # screen /\ pre_screen # {}
    /\ value_Vx = 57 /\ value_Vy = 27

(* C7: with no key pressed a cycle() that fetches FX0A leaves PC where it was,
   so the next cycle() fetches the same instruction, and changes no V register,
   nor I, the stack, memory or the display *)
C7_BusyWait ==
    [][CycleStep /\ key_input = 0 /\ Grp(NextWord) = 15 /\ Low(NextWord) = 10 =>
         /\ PC' = PC
         /\ WordAt(ram', PC') = NextWord
         /\ V' = V /\ I' = I /\ stack' = stack /\ ram' = ram /\ screen' = screen]_vars

C7_Witness ==
    /\ op = "cycle" /\ outcome = "ok" /\ calls = 5 /\ key_input = 0
    /\ opcode = 61706 /\ NextWord = 61706 /\ PC = 518
    /\ delay = 1 /\ sound = 2 /\ V[0] = 5 /\ V[1] = 0

(* C8: when the CPU waits on FX0A and press_key(k) makes k the only pressed
   key, the next cycle() advances PC by 2 and leaves VX = k *)
C8_KeyLoaded ==
    [][/\ CycleStep
       /\ op = "press_key" /\ outcome = "ok"
       /\ Grp(NextWord) = 15 /\ Low(NextWord) = 10 /\ opcode = NextWord
       => \A k \in 0..15 :
            key_input = KEY_MAP[k] =>
                PC' = (PC + 2) % U16 /\ V'[RegX(NextWord)] = k]_vars

(* one tick of a timer *)
Dec(v) == IF v > 0 THEN v - 1 ELSE 0

(* C9: a cycle() that completes leaves each timer one below the value it had
   after the instruction ran, or at 0 if that was 0: FX15 / FX18 with VX = k
   leave the timer at k - 1 (0 for k = 0), any other instruction leaves a
   nonzero timer one lower; each timer independently, never below 0 *)
C9_TimerTick ==
    [][CycleStep /\ outcome' = "ok" =>
         LET w == NextWord
             d == IF Grp(w) = 15 /\ Low(w) = 21 THEN V[RegX(w)] ELSE delay
             t == IF Grp(w) = 15 /\ Low(w) = 24 THEN V[RegX(w)] ELSE sound
         IN  /\ delay' = Dec(d) /\ sound' = Dec(t)
             /\ delay' \in 0..255 /\ sound' \in 0..255]_vars

C9_Witness ==
    /\ op = "cycle" /\ outcome = "ok"
    /\ Grp(opcode) = 15 /\ Low(opcode) = 24 /\ value_Vx = 255
    /\ sound = 254 /\ delay = 124

(* C10: reset() from any state leaves PC = 0x200, V0..VF = 0, I = 0, SP = 0,
   the stack empty, both timers 0 and every display cell 0; a reset() right
   after a reset() changes nothing *)
C10_Reset ==
    [][op' = "reset" =>
         /\ PC' = 512 /\ V' = [i \in 0..15 |-> 0] /\ I' = 0 /\ SP' = 0
         /\ stack' = <<>> /\ delay' = 0 /\ sound' = 0 /\ screen' = {}
         /\ op = "reset" => State' = State]_vars

C10_Witness ==
    /\ op = "reset" /\ pre_screen # {} /\ key_input # 0
    /\ PC = 512 /\ stack = <<>> /\ screen = {}

(* C11: reset() from any state leaves every byte of memory (the font, the
   program image and what the program wrote) and the key latch as they were *)
C11_ResetKeepsMemory ==
    [][op' = "reset" => ram' = ram /\ key_input' = key_input]_vars

C11_Witness ==
    /\ op = "reset" /\ key_input = KEY_MAP[10]
    /\ Peek(ram, 768) = 2 /\ Peek(ram, 769) = 5 /\ Peek(ram, 770) = 4
    /\ Peek(ram, 0) = 240 /\ WordAt(ram, START_PROGRAM_ADDR) = 24830
    /\ PC = START_PROGRAM_ADDR /\ V[0] = 0

(* C12: Bus.write(a, v) at an address below the size stores v at a and leaves
   the byte at every other address as it was, and a Bus.read(a) that follows
   the write returns v *)
C12_WriteRead ==
    [][/\ op' = "write" /\ args'[1] < SIZE =>
            /\ outcome' = "ok"
            /\ Peek(ram', args'[1]) = args'[2]
            /\ \A a \in (DOMAIN ram \cup DOMAIN ram') \ {args'[1]} :
                   Peek(ram', a) = Peek(ram, a)
       /\ /\ op = "write" /\ outcome = "ok" /\ op' = "read"
          /\ args'[1] = args[1] /\ args[1] < SIZE
          => outcome' = "ok" /\ read_data' = args[2]]_vars

C12_Witness ==
    /\ op = "read" /\ outcome = "ok" /\ args = <<SIZE - 1>> /\ read_data = 255
    /\ Peek(ram, 0) = 1 /\ Peek(ram, 1) = 144 /\ WordAt(ram, START_PROGRAM_ADDR) = 24831

(* C13: Bus.read(a) and Bus.write(a, v) at an address a >= size, a == size
   and a > size alike, end in a failure: the read returns no byte and the
   write is not dropped silently *)
C13_OutOfRange ==
    [][op' \in {"read", "write"} /\ args'[1] >= SIZE => outcome' # "ok"]_vars

(* C14: a cycle() that executes 00EE on an empty call stack ends in an error
   outcome; PC keeps the value the fetch gave it (no popped or default value)
   and the stack is still empty *)
C14_StackUnderflow ==
    [][/\ CycleStep
       /\ Grp(NextWord) = 0 /\ Low(NextWord) = 238 /\ stack = <<>>
       => /\ outcome' = "IndexError"
          /\ PC' = (PC + 2) % U16 /\ PC' # 0
          /\ stack' = <<>>]_vars

C14_Witness ==
    /\ op = "cycle" /\ outcome = "IndexError" /\ opcode = 238
    /\ stack = <<>> /\ PC = START_PROGRAM_ADDR + 2 /\ calls = 1 /\ clock_counter = 0

(* C15: the call stack never holds more than 16 saved addresses, and a 2NNN
   executed at depth 16 ends in the StackOverflow outcome and pushes nothing *)
C15_StackBound ==
    [][/\ Len(stack') <= 16
       /\ CycleStep /\ Grp(NextWord) = 2 /\ Len(stack) = 16
          => outcome' = "StackOverflow" /\ stack' = stack]_vars

(* the keys a latch value reports as pressed, by arithmetic on the bit of each key *)
Held(latch) == {k \in 0..15 : (latch \div KEY_MAP[k]) % 2 = 1}

(* every key has one latch bit, and no two keys the same *)
OneBitEach ==
    /\ \A k \in 0..15 : \E b \in 0..15 : KEY_MAP[k] = Pow2(b)
    /\ \A j, k \in 0..15 : j # k => KEY_MAP[j] # KEY_MAP[k]

(* C16: press_key(k) leaves k pressed and release_key(k) leaves it released,
   each changing at most the one latch bit of k, so no other key's state;
   distinct keys have distinct single bits; a press of a pressed key and a
   release of a released key change nothing.  With no key pressed at
   construction, k is then pressed exactly when its last event was a press *)
C16_InputLatch ==
    [][/\ OneBitEach
       /\ op' = "press_key" =>
            LET k == args'[1]
            IN  /\ is_key_pressed(key_input', k)
                /\ Held(key_input') = Held(key_input) \cup {k}
                /\ key_input' = IF k \in Held(key_input) THEN key_input
                                ELSE key_input + KEY_MAP[k]
       /\ op' = "release_key" =>
            LET k == args'[1]
            IN  /\ ~is_key_pressed(key_input', k)
                /\ Held(key_input') = Held(key_input) \ {k}
                /\ key_input' = IF k \in Held(key_input) THEN key_input - KEY_MAP[k]
                                ELSE key_input]_vars

C16_Witness ==
    /\ op = "release_key" /\ args = <<15>>
    /\ key_input = KEY_MAP[0] /\ Held(key_input) = {0}

(* column and row of a display cell *)
Col(c) == c % SCREEN_W
Row(c) == c \div SCREEN_W

(* the cells whose value differs between two displays *)
Changed(before, after) == (before \ after) \cup (after \ before)

(* C17: a DXYN changes no display cell outside columns VX..VX+7 and rows
   VY..VY+N-1; so a sprite pixel whose column is >= 64 or whose row is >= 32
   changes no cell: it is not wrapped to the other edge or into the next row *)
C17_DrawClipped ==
    [][CycleStep /\ Grp(NextWord) = 13 =>
         LET vx == V[RegX(NextWord)]
             vy == V[RegY(NextWord)]
         IN  \A c \in Changed(screen, screen') :
                 /\ c \in 0..(SCREEN_W * SCREEN_H - 1)
                 /\ Col(c) \in vx..(vx + 7)
                 /\ Row(c) \in vy..(vy + Nib(NextWord) - 1)]_vars

C17_Witness ==
    /\ op = "cycle" /\ outcome = "ok"
    /\ Grp(opcode) = 13 /\ Nib(opcode) = 5
    /\ value_Vx = 63 /\ value_Vy = 31
    /\ 2047 \notin pre_screen /\ screen = pre_screen \cup {2047}

(* C18: after a DXYN, VF = 1 when some display cell was 1 before and is 0
   after, and VF = 0 otherwise; so VF = 0 after a draw onto a clear display *)
C18_CollisionFlag ==
    [][CycleStep /\ outcome' = "ok" /\ Grp(NextWord) = 13 =>
         /\ V'[15] = IF screen \ screen' # {} THEN 1 ELSE 0
         /\ screen = {} => V'[15] = 0]_vars

(* C19: a DXYN whose 8 by N rectangle lies inside the grid leaves the cell at
   (VX + b, VY + r) equal to its old value XOR bit b (from the left) of the
   byte at I + r, for every row r and every one of the 8 bits b *)
C19_SpriteBlit ==
    [][/\ CycleStep /\ outcome' = "ok" /\ Grp(NextWord) = 13
       /\ V[RegX(NextWord)] + 7 < SCREEN_W
       /\ V[RegY(NextWord)] + Nib(NextWord) - 1 < SCREEN_H
       /\ I + Nib(NextWord) <= SIZE
       => \A r \in 0..(Nib(NextWord) - 1), b \in 0..7 :
             LET c == (V[RegY(NextWord)] + r) * SCREEN_W + V[RegX(NextWord)] + b
                 old == IF c \in screen THEN 1 ELSE 0
                 new == IF c \in screen' THEN 1 ELSE 0
             IN  new = (old + SpriteBit(Peek(ram, I + r), b)) % 2]_vars

(* C20: after 1NNN, 2NNN or BNNN the program counter is in 0x000..0xFFF, and
   after ANNN the index register is: an address inside the memory *)
C20_Address12 ==
    [][CycleStep /\ outcome' = "ok" =>
         /\ Grp(NextWord) \in {1, 2, 11} => PC' \in 0..(SIZE - 1)
         /\ Grp(NextWord) = 10 => I' \in 0..(SIZE - 1)]_vars

(* C21: a 2NNN fetched at address a pushes a + 2 and sets PC to NNN; a 00EE on
   a stack that is not empty sets PC to the address saved last and removes
   just that entry, so the matching return lands on a + 2 with the stack as it
   was before the call and nested calls return last in, first out; the depth
   moves by +1 on a call, -1 on a return and 0 on every other cycle, and is 0
   after a reset, so it counts the calls minus the returns since the reset *)
C21_CallReturn ==
    [][/\ op' = "reset" => stack' = <<>>
       /\ CycleStep /\ Grp(NextWord) = 2
            => /\ stack' = Append(stack, PC + 2)
               /\ PC' = NextWord % 4096
               /\ outcome' = "ok"
       /\ CycleStep /\ NextWord = 238 /\ stack # <<>>
            => /\ PC' = stack[Len(stack)]
               /\ stack' = SubSeq(stack, 1, Len(stack) - 1)
               /\ outcome' = "ok"
       /\ CycleStep /\ Grp(NextWord) # 2 /\ ~(NextWord = 238 /\ stack # <<>>)
            => stack' = stack]_vars

(* the inner return of two nested calls: CALL 0x204 at 0x200, CALL 0x208 at
   0x204, RET at 0x208 *)
C21_Witness ==
    /\ op = "cycle" /\ outcome = "ok" /\ opcode = 238 /\ calls = 3
    /\ PC = START_PROGRAM_ADDR + 6 /\ stack = <<START_PROGRAM_ADDR + 2>>

(* a cycle() that completes a shift 8XY6 or 8XYE with X other than F *)
ShiftStep ==
    /\ CycleStep /\ outcome' = "ok"
    /\ Grp(NextWord) = 8 /\ Nib(NextWord) \in {6, 14} /\ RegX(NextWord) # 15

(* the flag and the result of the shift, from the old VX *)
ShiftFlag == IF Nib(NextWord) = 6 THEN V[RegX(NextWord)] % 2
             ELSE V[RegX(NextWord)] \div 128
ShiftValue == IF Nib(NextWord) = 6 THEN V[RegX(NextWord)] \div 2
              ELSE (V[RegX(NextWord)] * 2) % 256

(* C22 as stated: for every X other than F and every Y, 8XY6 leaves
   VF = old VX mod 2 and VX = old VX div 2, 8XYE leaves VF = old VX div 128 and
   VX = (old VX * 2) mod 256, and VY is unchanged *)
C22_ShiftAnyY ==
    [][ShiftStep =>
         /\ V'[15] = ShiftFlag
         /\ V'[RegX(NextWord)] = ShiftValue
         /\ V'[RegY(NextWord)] = V[RegY(NextWord)]]_vars

(* C22: for every X other than F and every Y, 8XY6 leaves VF = old VX mod 2 and
   VX = old VX div 2, 8XYE leaves VF = old VX div 128 and
   VX = (old VX * 2) mod 256; the value of VY plays no part in either, and
   every register other than VX and VF, VY among them when Y is neither X nor
   F, is unchanged *)
C22_Shift ==
    [][ShiftStep =>
         /\ V'[15] = ShiftFlag
         /\ V'[RegX(NextWord)] = ShiftValue
         /\ \A r \in 0..14 : r # RegX(NextWord) => V'[r] = V[r]]_vars

(* 8FE on V0 = 255 with V1 = 5, and 8F6 on V0 = 5 with VF = 1 *)
C22_Witness ==
    /\ op = "cycle" /\ outcome = "ok" /\ calls = 3
    /\ \/ opcode = W(8, 0, 1, 14) /\ V[0] = 254 /\ V[15] = 1 /\ V[1] = 5
       \/ opcode = W(8, 0, 15, 6) /\ V[0] = 2 /\ V[15] = 1

(* C23: a cycle() that fetches EX9E advances PC by 4 if the key whose code is
   in VX is pressed and by 2 otherwise; a cycle() that fetches EXA1 advances
   PC by 4 if that key is not pressed and by 2 otherwise *)
C23_KeySkip ==
    [][CycleStep /\ Grp(NextWord) = 14 /\ Low(NextWord) \in {158, 161} =>
         LET down == is_key_pressed(key_input, V[RegX(NextWord)])
             skip == IF Low(NextWord) = 158 THEN down ELSE ~down
         IN  PC' = PC + (IF skip THEN 4 ELSE 2)]_vars

(* the instructions that write the display *)
Paints(w) == Grp(w) = 13 \/ w = 224

(* C24: is_drawing is true after every DXYN, every 00E0 and every reset(); no
   cycle(), reset() or key event turns it from true to false, only the
   renderer's redraw does; and so, whenever the display differs in some cell
   from what the renderer last painted, is_drawing is true *)
C24_DirtyFlag ==
    /\ [](Running /\ screen # pixels => is_drawing)
    /\ [][/\ CycleStep /\ Paints(NextWord) => is_drawing'
          /\ op' = "reset" => is_drawing'
          /\ op' \in {"cycle", "reset", "press_key", "release_key"} /\ is_drawing
               => is_drawing'
          /\ is_drawing /\ ~is_drawing' => op' = "draw" /\ pixels' = screen]_vars

(* a sprite was drawn and painted, then 00E0 cleared the display: the window
   still shows the sprite and the flag is up again *)
C24_Witness ==
    /\ op = "cycle" /\ opcode = 224 /\ outcome = "ok"
    /\ screen = {} /\ pixels # {} /\ is_drawing

(* a cycle() that fetches FX55 (m = 85) or FX65 (m = 101) with I + X inside
   memory *)
BlockStep(m) ==
    /\ CycleStep
    /\ Grp(NextWord) = 15 /\ Low(NextWord) = m
    /\ I + RegX(NextWord) < SIZE

(* C25: with I + X inside memory, FX55 copies V0..VX to memory I..I+X, changes
   no other memory byte and no V register and leaves I = old I + X + 1; FX65
   copies memory I..I+X into V0..VX, changes no memory byte and no register
   above VX and leaves I = old I + X + 1; and an FX65 run on the result of the
   FX55 with I set back to its old value gives V0..VX the values they had
   before the FX55 *)
C25_BlockTransfer ==
    [][LET X == RegX(NextWord)
       IN  /\ BlockStep(85) =>
                /\ outcome' = "ok"
                /\ \A k \in 0..X : Peek(ram', I + k) = V[k]
                /\ \A a \in (DOMAIN ram \cup DOMAIN ram') :
                      a \notin I..(I + X) => Peek(ram', a) = Peek(ram, a)
                /\ V' = V
                /\ I' = I + X + 1
                /\ LET back == _FX65([State' EXCEPT !.I = I,
                                                    !.opcode = WK(15, X, 101)])
                   IN  \A k \in 0..X : back.V[k] = V[k]
           /\ BlockStep(101) =>
                /\ outcome' = "ok"
                /\ \A k \in 0..X : V'[k] = Peek(ram, I + k)
                /\ \A k \in (X + 1)..15 : V'[k] = V[k]
                /\ ram' = ram
                /\ I' = I + X + 1]_vars

(* FF55 at I = 0xFF0, V0 and V1 overwritten, I set back, FF65: the registers
   are back and I is one past the block *)
C25_Witness ==
    /\ op = "cycle" /\ outcome = "ok" /\ opcode = WK(15, 15, 101) /\ calls = 9
    /\ V[0] = 255 /\ V[1] = 200 /\ V[15] = 3 /\ I = 4080 + 16
    /\ Peek(ram, 4080) = 255 /\ Peek(ram, 4095) = 3

(* the last cycle() fetched the instruction that writes the delay timer (FX15,
   m = 21) or the sound timer (FX18, m = 24) *)
Wrote(m) == op = "cycle" /\ Grp(opcode) = 15 /\ Low(opcode) = m

(* the last cycle() ended in an error, or the process has ended *)
Failed == outcome # "ok"

(* a countdown of t that the explored cycles can hold *)
Counting(t) == t > 0 /\ calls + t <= MaxCalls

(* C26: a timer that holds k > 0 at the end of a cycle, with no later write of
   that timer, no reset and cycle() called again and again without error,
   reaches 0 after exactly k further cycles and stays 0: every completed cycle
   that does not write the timer lowers it by one or leaves it at 0, also a
   cycle that waits on FX0A, and a counting timer leads to 0 unless a cycle
   fails or writes it first *)
C26_Countdown ==
    /\ [][CycleStep /\ outcome' = "ok" =>
            /\ ~(Grp(NextWord) = 15 /\ Low(NextWord) = 21) => delay' = Dec(delay)
            /\ ~(Grp(NextWord) = 15 /\ Low(NextWord) = 24) => sound' = Dec(sound)]_vars
    /\ (Counting(delay) /\ ~Wrote(21) /\ ~Failed)
          ~> (delay = 0 \/ Failed \/ Wrote(21))
    /\ (Counting(sound) /\ ~Wrote(24) /\ ~Failed)
          ~> (sound = 0 \/ Failed \/ Wrote(24))

(* both timers ran out while the machine waited for a key: DT set to 3 in the
   second cycle, ST to 5 in the fourth, then FX0A with no key down *)
C26_Witness ==
    /\ op = "cycle" /\ outcome = "ok" /\ opcode = WK(15, 2, 10) /\ key_input = 0
    /\ PC = START_PROGRAM_ADDR + 8 /\ calls = 8 /\ delay = 0 /\ sound = 0
    /\ V[0] = 3 /\ V[1] = 5

(* C27: a cycle() that ends in UnknownOpcode has moved PC on by 2 and left the
   fetched word in the opcode latch, and nothing else: the V registers, I, SP,
   the call stack, memory, the display, the dirty flag and the key latch are as
   before the call, and neither timer has been decremented *)
C27_FailedInstruction ==
    [][CycleStep /\ outcome' = "UnknownOpcode" =>
         /\ PC' = (PC + 2) % U16
         /\ opcode' = NextWord
         /\ V' = V /\ I' = I /\ SP' = SP /\ stack' = stack
         /\ ram' = ram /\ screen' = screen
         /\ is_drawing' = is_drawing /\ key_input' = key_input
         /\ delay' = delay /\ sound' = sound]_vars

(* 8018 fails inside a subroutine, with both timers running, a sprite on the
   display that the renderer has painted, and a key held *)
C27_Witness ==
    /\ op = "cycle" /\ outcome = "UnknownOpcode" /\ opcode = 32792
    /\ PC = START_PROGRAM_ADDR + 16 /\ stack = <<START_PROGRAM_ADDR + 12>>
    /\ V[0] = 9 /\ delay = 4 /\ sound = 5
    /\ screen # {} /\ ~is_drawing /\ key_input # 0

====
